---- MODULE Spec2Model ----
(***************************************************************************)
(* A model of kaggle_dataset_downloader.py: download_datasets loops over   *)
(* the dataset list, running the external kaggle command and then          *)
(* unzip_datasets for each identifier; organize_datasets then creates the  *)
(* four category directories.  The working directory is the only shared    *)
(* state.  Python strings are modelled as sequences of one-character       *)
(* strings so that str.split and the f-string are computed, not assumed.   *)
(***************************************************************************)
EXTENDS Integers, Sequences, FiniteSets, TLC

VARIABLES
    datasets,    \* the list download_datasets iterates (line 7)
    tool,        \* whether the kaggle executable is on the PATH
    pc,          \* position of the single thread of control
    i,           \* 1-based index of the loop variable `dataset` (line 13)
    fs,          \* the working directory: path name -> node
    zip_file,    \* unzip_datasets' local zip_file of its latest call (line 19)
    returncode,  \* exit status of the latest external command (never read)
    err,         \* the exception that ended the process, or "none"
    running,     \* number of external commands in flight
    found,       \* history: what the latest unzip_datasets found at zip_file:
                 \* "absent", "archive" (a well-formed one) or "other"
    rewritten,   \* history: the archive names of datasets already processed
                 \* that the extraction of a later dataset's archive wrote
    calls        \* history: the calls made so far, in order

vars == <<datasets, tool, pc, i, fs, zip_file, returncode, err, running, found, rewritten, calls>>

----------------------------------------------------------------------------
(* Bounds of the model *)

MaxDatasets == 3      \* longest dataset list tried
MaxEntries == 1       \* most entries in one archive
MaxInitPaths == 1     \* most paths present before the script starts
MaxIdLen == 3         \* longest identifier tried for the file-name rule

----------------------------------------------------------------------------
(* Strings *)

username == <<"u","s","e","r","n","a","m","e">>
dataset_stem == <<"d","a","t","a","s","e","t">>
Digit == <<"1","2","3","4","5","6","7","8","9">>
dot_zip == <<".","z","i","p">>
data_csv == <<"d","a","t","a",".","c","s","v">>
fresh == <<"f","r","e","s","h">>
light_damage == <<"l","i","g","h","t","_","d","a","m","a","g","e">>
moderate_damage == <<"m","o","d","e","r","a","t","e","_","d","a","m","a","g","e">>
severe_damage == <<"s","e","v","e","r","e","_","d","a","m","a","g","e">>

\* 'username/dataset<k>', the identifiers of line 8-10 (and their continuation)
DatasetId(k) == username \o <<"/">> \o dataset_stem \o <<Digit[k]>>

\* the list of line 7-11, cut or continued to n identifiers
DatasetList(n) == [k \in 1..n |-> DatasetId(k)]

\* the list of line 26
categories == <<fresh, light_damage, moderate_damage, severe_damage>>

\* str.split(sep): the segments between the occurrences of sep, left to right
RECURSIVE split(_, _)
split(s, sep) ==
    IF \E k \in 1..Len(s) : s[k] = sep
    THEN LET k == CHOOSE k \in 1..Len(s) :
                      s[k] = sep /\ \A j \in 1..(k-1) : s[j] # sep
         IN  <<SubSeq(s, 1, k-1)>> \o split(SubSeq(s, k+1, Len(s)), sep)
    ELSE <<s>>

\* parts[0] instead of parts[-1]
first(parts) == parts[1]

\* parts[-1]
last(parts) == parts[Len(parts)]

\* line 19: f"{dataset.split('/')[-1]}.zip"
ZipFileName(dataset) == last(split(dataset, "/")) \o dot_zip

----------------------------------------------------------------------------
(* The working directory *)

Absent == [kind |-> "absent", valid |-> FALSE, entries |-> <<>>]
Dir == [kind |-> "dir", valid |-> FALSE, entries |-> <<>>]
\* a regular file that is not a well-formed zip archive
PlainFile == [kind |-> "file", valid |-> FALSE, entries |-> <<>>]
\* a regular file that is a well-formed zip archive with these file entries
ArchiveFile(es) == [kind |-> "file", valid |-> TRUE, entries |-> es]

Range(s) == {s[k] : k \in 1..Len(s)}

\* the archive names of a dataset list
ZipFileNames(ds) == {ZipFileName(ds[k]) : k \in 1..Len(ds)}

\* the path names the model tracks for a dataset list
Names(ds) == ZipFileNames(ds) \cup {data_csv} \cup Range(categories)

\* the names an archive's entries are drawn from
EntryNames(ds) == {data_csv, fresh} \cup ZipFileNames(ds)

SeqsUpTo(S, n) == UNION {[1..m -> S] : m \in 0..n}

Archives(ds) == {ArchiveFile(es) : es \in SeqsUpTo(EntryNames(ds), MaxEntries)}

\* an existence check that always answers yes
exists_always(f, path) == TRUE

\* os.path.exists(path): true of a file and of a directory
exists(f, path) == f[path].kind # "absent"

----------------------------------------------------------------------------
(* Library calls, as the script uses them *)

\* the result of a call: the working directory it leaves, the exception it
\* raises or "none", and the paths an extraction wrote
Ok(f, w) == [fs |-> f, err |-> "none", wrote |-> w]
Raised(f, e, w) == [fs |-> f, err |-> e, wrote |-> w]

\* zipfile's extractall on entries es[k..]: each entry is written to the
\* working directory under its own name, in archive order.  A file entry over
\* an existing directory raises; an entry named like the archive itself
\* truncates the archive while it is being read, after which the read either
\* still succeeds (buffered) or raises.  The result is the set of outcomes.
RECURSIVE extractall(_, _, _, _, _)
extractall(f, archive, es, k, w) ==
    IF k > Len(es) THEN {Ok(f, w)}
    ELSE LET n == es[k]
             g == [f EXCEPT ![n] = PlainFile]
             v == w \cup {n}
         IN  IF f[n].kind = "dir" THEN {Raised(f, "IsADirectoryError", w)}
             ELSE IF n = archive
                  THEN extractall(g, archive, es, k+1, v)
                           \cup {Raised(g, "EOFError", v)}
                  ELSE extractall(g, archive, es, k+1, v)

\* an unpack_archive that ignores what it cannot read
unpack_archive_lenient(f, path) ==
    IF f[path].kind = "file" /\ f[path].valid
    THEN extractall(f, path, f[path].entries, 1, {})
    ELSE {Ok(f, {})}

\* shutil.unpack_archive(zip_file): a path that is no well-formed zip file
\* (a directory, a truncated or foreign file) raises ReadError
unpack_archive(f, path) ==
    IF f[path].kind = "file" /\ f[path].valid
    THEN extractall(f, path, f[path].entries, 1, {})
    ELSE {Raised(f, "ReadError", {})}

\* an os.remove that deletes nothing
remove_nothing(f, path) == f

\* os.remove(path) of a regular file
remove(f, path) == [f EXCEPT ![path] = Absent]

\* an extractor that forgets to delete the archive
unzip_datasets_keeps(f, dataset) ==
    LET zf == ZipFileName(dataset)
    IN  IF exists(f, zf) THEN unpack_archive(f, zf) ELSE {Ok(f, {})}

\* line 18-22: the outcomes of unzip_datasets(dataset) on working directory f
unzip_datasets(f, dataset) ==
    LET zf == ZipFileName(dataset)
    IN  IF exists(f, zf)
        THEN {IF r.err = "none" THEN Ok(remove(r.fs, zf), r.wrote) ELSE r :
                  r \in unpack_archive(f, zf)}
        ELSE {Ok(f, {})}

\* os.makedirs(path) without exist_ok: an existing directory raises too
makedirs_exist_not_ok(f, path) ==
    IF f[path].kind = "absent" THEN Ok([f EXCEPT ![path] = Dir], {})
    ELSE Raised(f, "FileExistsError", {})

\* an os.makedirs whose errors are swallowed
makedirs_swallows(f, path) ==
    IF f[path].kind = "absent" THEN Ok([f EXCEPT ![path] = Dir], {}) ELSE Ok(f, {})

\* os.makedirs(path, exist_ok=True): creates a missing directory, accepts an
\* existing one, raises FileExistsError when the path is a regular file
makedirs(f, path) ==
    IF f[path].kind = "absent" THEN Ok([f EXCEPT ![path] = Dir], {})
    ELSE IF f[path].kind = "dir" THEN Ok(f, {})
    ELSE Raised(f, "FileExistsError", {})

\* line 25-28: the loop over categories from position k; the first raise ends it
RECURSIVE organize_from(_, _)
organize_from(f, k) ==
    IF k > Len(categories) THEN Ok(f, {})
    ELSE LET r == makedirs(f, categories[k])
         IN  IF r.err = "none" THEN organize_from(r.fs, k+1) ELSE r

organize_datasets(f) == organize_from(f, 1)

\* what one run of `kaggle datasets download <dataset>` can leave at
\* <name>.zip: nothing new, a well-formed archive, or a partial file
Downloaded(ds) == Archives(ds) \cup {PlainFile}

----------------------------------------------------------------------------
(* The script *)

\* The paths present before the script starts.  Only their kind matters: an
\* archive left by an earlier run is covered by a download that places it.
InitialFS(ds) ==
    UNION {{[n \in Names(ds) |-> IF n \in P THEN g[n] ELSE Absent] :
                g \in [P -> {Dir, PlainFile}]} :
           P \in {Q \in SUBSET Names(ds) : Cardinality(Q) <= MaxInitPaths}}

InitWith(lists) ==
    /\ datasets \in lists
    /\ tool \in {"present", "missing"}
    /\ fs \in InitialFS(datasets)
    /\ pc = "start"
    /\ i = 1
    /\ zip_file = <<>>
    /\ returncode = 0
    /\ err = "none"
    /\ running = 0
    /\ found = "absent"
    /\ rewritten = {}
    /\ calls = <<>>

Init == InitWith({DatasetList(n) : n \in 0..MaxDatasets})

\* identifiers of any shape: with and without separators, empty segments
Identifiers == SeqsUpTo({"a", "b", "/"}, MaxIdLen)

InitIds == InitWith({<<d>> : d \in Identifiers})

\* an entry of the history: the call and the index of its dataset
Call(op, k) == [op |-> op, k |-> k]

\* a loop that never advances: the same dataset is fetched again
loop_repeats(k, n) == [pc |-> "fetch", i |-> k]

\* line 13: after the body for element k of n, the for loop takes the next
\* element, or ends and download_datasets returns to line 34
loop_next(k, n) ==
    IF k < n THEN [pc |-> "fetch", i |-> k + 1] ELSE [pc |-> "organize", i |-> k]

\* subprocess.run(..., check=True): a non-zero exit status raises
run_result_checked(rc) ==
    IF rc # 0 THEN [pc |-> "crashed", err |-> "CalledProcessError"]
    ELSE [pc |-> "unzip", err |-> "none"]

\* line 14: subprocess.run is called without check=True and its result is
\* dropped, so control reaches line 15 whatever the exit status rc
run_result(rc) == [pc |-> "unzip", err |-> "none"]

\* an entry point that never calls download_datasets
main_skips_download ==
    /\ pc = "start"
    /\ pc' = "organize"
    /\ UNCHANGED <<datasets, tool, i, fs, zip_file, returncode, err, running,
                   found, rewritten, calls>>

\* line 33, 13: download_datasets is entered and the loop takes its first
\* element, or ends at once on an empty list
main ==
    /\ pc = "start"
    /\ pc' = IF Len(datasets) = 0 THEN "organize" ELSE "fetch"
    /\ UNCHANGED <<datasets, tool, i, fs, zip_file, returncode, err, running, found, rewritten, calls>>

\* line 14: subprocess.run starts the external command; a missing executable
\* raises FileNotFoundError, which nothing catches
subprocess_run ==
    /\ pc = "fetch"
    /\ calls' = Append(calls, Call("run", i))
    /\ IF tool = "missing"
       THEN /\ pc' = "crashed"
            /\ err' = "FileNotFoundError"
            /\ UNCHANGED running
       ELSE /\ pc' = "waiting"
            /\ running' = running + 1
            /\ UNCHANGED err
    /\ UNCHANGED <<datasets, tool, i, fs, zip_file, returncode, found, rewritten>>

\* line 14: the external command ends; its exit status is not looked at
\* (no check=True), whatever it left in the working directory
subprocess_returns ==
    /\ pc = "waiting"
    /\ returncode' \in {0, 1}
    /\ LET zf == ZipFileName(datasets[i])
       IN  \/ UNCHANGED fs
           \/ /\ fs[zf].kind # "dir"
              /\ \E c \in Downloaded(datasets) : fs' = [fs EXCEPT ![zf] = c]
    /\ running' = running - 1
    /\ calls' = Append(calls, Call("returned", i))
    /\ pc' = run_result(returncode').pc
    /\ err' = run_result(returncode').err
    /\ UNCHANGED <<datasets, tool, i, zip_file, found, rewritten>>

\* line 15, 18-22, 13: unzip_datasets(dataset), then the loop's next element
\* or the return of download_datasets
unzip ==
    /\ pc = "unzip"
    /\ zip_file' = ZipFileName(datasets[i])
    /\ calls' = Append(calls, Call("unzip", i))
    /\ found' = LET node == fs[ZipFileName(datasets[i])]
                IN  IF node.kind = "absent" THEN "absent"
                    ELSE IF node.kind = "file" /\ node.valid THEN "archive"
                    ELSE "other"
    /\ \E r \in unzip_datasets(fs, datasets[i]) :
          /\ fs' = r.fs
          /\ err' = r.err
          /\ rewritten' = rewritten \cup
                 (r.wrote \cap {ZipFileName(datasets[k]) : k \in 1..(i-1)})
          /\ IF r.err # "none"
             THEN pc' = "crashed" /\ UNCHANGED i
             ELSE /\ pc' = loop_next(i, Len(datasets)).pc
                  /\ i' = loop_next(i, Len(datasets)).i
    /\ UNCHANGED <<datasets, tool, returncode, running>>

\* line 34, 25-30: organize_datasets()
organize ==
    /\ pc = "organize"
    /\ calls' = Append(calls, Call("organize", 0))
    /\ LET r == organize_datasets(fs)
       IN  /\ fs' = r.fs
           /\ err' = r.err
           /\ pc' = IF r.err = "none" THEN "done" ELSE "crashed"
    /\ UNCHANGED <<datasets, tool, i, zip_file, returncode, running, found, rewritten>>

Next == main \/ subprocess_run \/ subprocess_returns \/ unzip \/ organize

Spec == Init /\ [][Next]_vars

\* the same script on a one-element list holding any identifier
SpecIds == InitIds /\ [][Next]_vars

----------------------------------------------------------------------------
(* Properties *)

LastCall == calls[Len(calls)]

\* the archive path of the dataset the loop is at
CurrentZip == ZipFileName(datasets[i])

\* the position that follows <<p, k>> in the script's straight-line order
LinearSuccessor(p, k, n) ==
    CASE p = "start"    -> IF n = 0 THEN <<"organize", k>> ELSE <<"fetch", k>>
      [] p = "fetch"    -> <<"waiting", k>>
      [] p = "waiting"  -> <<"unzip", k>>
      [] p = "unzip"    -> IF k < n THEN <<"fetch", k + 1>> ELSE <<"organize", k>>
      [] p = "organize" -> <<"done", k>>
      [] OTHER          -> <<p, k>>

\* the calls of download_datasets, without the organizer's
DownloadCalls == SelectSeq(calls, LAMBDA c : c.op # "organize")

\* the j-th call of a complete download_datasets: run, returned, unzip for
\* dataset 1, then for dataset 2, ...
ExpectedCall(j) ==
    Call(<<"run", "returned", "unzip">>[((j - 1) % 3) + 1], ((j - 1) \div 3) + 1)

\* download_datasets has returned to line 34
Returned == pc \in {"organize", "done"} \/ (calls # <<>> /\ LastCall.op = "organize")

C2_FetchAllBeforeExtract ==
    \A a, b \in 1..Len(calls) :
        (calls[a].op = "unzip" /\ calls[b].op = "run") => b < a

\* C2 amended: the run is the straight line Start -> (Fetch k -> Extract k)
\* for each dataset k in list order -> Organize -> Done.  Every step moves to
\* the next position of that line or stops the run where an exception is
\* raised; each extraction directly follows the return of its own dataset's
\* download and precedes the next dataset's download, and the Organizer starts
\* after every extraction.
C2_LinearPerDataset ==
    /\ [][pc' # "crashed" => <<pc', i'>> = LinearSuccessor(pc, i, Len(datasets))]_vars
    /\ [](\A a \in 1..Len(calls) :
            /\ calls[a].op = "unzip" =>
                  a > 1 /\ calls[a - 1] = Call("returned", calls[a].k)
            /\ (calls[a].op = "run" /\ calls[a].k > 1) =>
                  a > 1 /\ calls[a - 1] = Call("unzip", calls[a].k - 1)
            /\ calls[a].op = "organize" =>
                  /\ a = Len(calls)
                  /\ \A k \in 1..Len(datasets) :
                        \E b \in 1..(a - 1) : calls[b] = Call("unzip", k))

C2_Witness ==
    /\ pc = "done"
    /\ Len(datasets) >= 2
    /\ \E a, b \in 1..Len(calls) :
          a < b /\ calls[a].op = "unzip" /\ calls[b].op = "run"

\* the number of times the external command was invoked for dataset k
RunCount(cs, k) == Cardinality({j \in 1..Len(cs) : cs[j] = Call("run", k)})

\* C3 as stated: however a download fails (the executable is missing, or the
\* command exits with a non-zero status), nothing is raised, the step that
\* follows is the extraction for that dataset, and the run goes on from there
C3_AnyFailureProceeds ==
    [][/\ (pc = "fetch" /\ tool = "missing") => (pc' # "crashed" /\ err' = "none")
       /\ (pc = "waiting" /\ returncode' # 0) =>
             (pc' = "unzip" /\ i' = i /\ err' = "none")
       /\ (pc = "unzip" /\ returncode # 0) => (pc' # "crashed" /\ err' = "none")]_vars

\* C3 amended: when the external command runs and fails (non-zero exit
\* status), nothing is raised or retried and the next step is the extraction
\* for that dataset, and unless that extraction raises, the run goes on with
\* the next dataset or the Organizer.  When the executable is missing,
\* subprocess.run raises FileNotFoundError and the run stops there.
C3_FailedRunProceeds ==
    [][/\ (pc = "fetch" /\ tool = "missing") =>
             (pc' = "crashed" /\ err' = "FileNotFoundError" /\ fs' = fs)
       /\ (pc = "waiting" /\ returncode' # 0) =>
             /\ pc' = "unzip" /\ i' = i /\ err' = "none"
             /\ RunCount(calls', i) = 1
       /\ (pc = "unzip" /\ returncode # 0 /\ err' = "none") =>
             <<pc', i'>> = LinearSuccessor(pc, i, Len(datasets))]_vars

C3_Witness ==
    /\ pc = "done"
    /\ returncode = 1
    /\ Len(datasets) >= 1
    /\ RunCount(calls, Len(datasets)) = 1

\* <name>.zip is a well-formed archive when unzip_datasets is called
ArchiveAtCall == fs[CurrentZip].kind = "file" /\ fs[CurrentZip].valid

C5_MissingArchiveNoOp ==
    [][(pc = "unzip" /\ fs[CurrentZip].kind = "absent") =>
          (fs' = fs /\ err' = "none" /\ pc' # "crashed")]_vars

C5_Witness ==
    /\ calls # <<>> /\ LastCall.op = "unzip"
    /\ found = "absent"
    /\ err = "none"
    /\ pc \in {"fetch", "organize"}

AllCategoryDirs(f) == \A c \in Range(categories) : f[c] = Dir
SomeCategoryIsFile(f) == \E c \in Range(categories) : f[c].kind = "file"

\* C6 as stated: from any working-directory state, organize_datasets raises
\* nothing and leaves the four category directories, and a second run raises
\* nothing and changes nothing
C6_IdempotentFromAnyState ==
    [][pc = "organize" =>
          /\ err' = "none"
          /\ AllCategoryDirs(fs')
          /\ organize_datasets(fs') = Ok(fs', {})]_vars

\* C6 amended: from any working-directory state in which no category name is
\* taken by a regular file, organize_datasets creates each missing category
\* directory, raises nothing for one already present and touches no other
\* path, and a second run raises nothing and changes nothing; the state in
\* which the script ends is such a fixed point.  Where a category name is
\* taken by a regular file, os.makedirs raises FileExistsError.
C6_IdempotentUnlessFileInTheWay ==
    LET r == organize_datasets(fs)
    IN  /\ ~SomeCategoryIsFile(fs) =>
              /\ r.err = "none"
              /\ AllCategoryDirs(r.fs)
              /\ \A n \in DOMAIN fs : n \notin Range(categories) => r.fs[n] = fs[n]
              /\ organize_datasets(r.fs) = r
        /\ SomeCategoryIsFile(fs) => r.err = "FileExistsError"
        /\ pc = "done" => (AllCategoryDirs(fs) /\ r = Ok(fs, {}))

C6_Witness ==
    /\ pc = "done"
    /\ AllCategoryDirs(fs)
    /\ organize_datasets(fs) = Ok(fs, {})

\* C7 as stated: when the script has run to completion, no <name>.zip of a
\* listed identifier remains, whatever the archives contained
C7_NoArchiveRemains ==
    pc = "done" => \A k \in 1..Len(datasets) : fs[ZipFileName(datasets[k])] = Absent

\* C7 amended: when the script has run to completion, <name>.zip remains only
\* for an identifier whose archive name was written again, after its own
\* extraction, by the extraction of a later identifier's archive holding an
\* entry of that name; the last identifier's archive never remains
C7_ArchiveRemainsOnlyIfRewritten ==
    pc = "done" =>
        /\ \A k \in 1..Len(datasets) :
              fs[ZipFileName(datasets[k])] # Absent =>
                  /\ ZipFileName(datasets[k]) \in rewritten
                  /\ k < Len(datasets)
        /\ rewritten = {} => \A z \in ZipFileNames(datasets) : fs[z] = Absent

C7_Witness ==
    /\ pc = "done"
    /\ Len(datasets) >= 2
    /\ found = "archive"
    /\ fs[data_csv] = PlainFile
    /\ \A z \in ZipFileNames(datasets) : fs[z] = Absent

C9_OnlyMakedirsStops ==
    /\ (calls # <<>> /\ LastCall.op = "organize" /\ SomeCategoryIsFile(fs)) =>
          pc = "crashed"
    /\ pc = "crashed" => LastCall.op = "organize"

\* C9 amended: a category directory that cannot be created stops the process
\* with an unhandled FileExistsError.  Two other failures stop it as well: a
\* missing kaggle executable (FileNotFoundError) and an existing <name>.zip
\* whose unpacking raises (ReadError, IsADirectoryError, EOFError).  Nothing
\* else does: a command that ran, whatever its exit status, and an absent
\* archive never stop the run.
C9_WhatStopsTheRun ==
    /\ (pc = "crashed") <=> (err # "none")
    /\ (calls # <<>> /\ LastCall.op = "organize" /\ SomeCategoryIsFile(fs)) =>
          (pc = "crashed" /\ err = "FileExistsError")
    /\ pc = "crashed" =>
          \/ LastCall.op = "organize" /\ err = "FileExistsError"
          \/ LastCall.op = "run" /\ tool = "missing" /\ err = "FileNotFoundError"
          \/ /\ LastCall.op = "unzip"
             /\ found # "absent"
             /\ err \in {"ReadError", "IsADirectoryError", "EOFError"}

C9_Witness ==
    /\ pc = "crashed"
    /\ err = "FileExistsError"
    /\ LastCall.op = "organize"

\* seg is the part of s after its last "/" (all of s when it has none)
IsLastSegment(seg, s) ==
    /\ \A k \in 1..Len(seg) : seg[k] # "/"
    /\ Len(seg) <= Len(s)
    /\ SubSeq(s, Len(s) - Len(seg) + 1, Len(s)) = seg
    /\ Len(seg) < Len(s) => s[Len(s) - Len(seg)] = "/"

\* owner parts put in front of a name
Owners == {<<>>, <<"a">>, <<"b", "/", "a">>, username}

\* C10: the file name unzip_datasets looks for is the part of the identifier
\* after its last "/" followed by ".zip", whatever the owner part is
C10_ArchiveName ==
    zip_file # <<>> =>
        \E m \in 0..Len(datasets[i]) :
            LET d == datasets[i]
                seg == SubSeq(d, Len(d) - m + 1, Len(d))
            IN  /\ IsLastSegment(seg, d)
                /\ zip_file = seg \o dot_zip
                /\ \A o \in Owners : ZipFileName(o \o <<"/">> \o seg) = zip_file

C10_Witness ==
    /\ datasets = << <<"a", "/", "b">> >>
    /\ zip_file = <<"b", ".", "z", "i", "p">>

====
